---------------------------- MODULE Spec2Model ----------------------------
(***************************************************************************)
(* Flight-delay prediction service (challenge/model.py, challenge/api.py). *)
(*                                                                         *)
(* Four specifications over one set of variables:                          *)
(*   Spec       the serving process: startup load, then /predict requests  *)
(*   SpecEncode DelayModel.preprocess on batches of flight records         *)
(*   SpecLabel  DelayModel._generate_delay_target on timestamp pairs       *)
(*   SpecStore  DelayModel.fit / save_model / load_model over a file system*)
(* A variable a specification does not use keeps its initial value.        *)
(***************************************************************************)
EXTENDS Integers, Sequences, FiniteSets, TLC

VARIABLES
    phase,      \* serving process: "startup" until load_model_on_startup ran
    env,        \* what the startup hook finds: configuration, registry, artifact
    srv,        \* api._model._model : NoModel (None) or a classifier
    assigns,    \* history: assignments made to api._model._model (capped)
    served,     \* history: a /predict request has been handled
    late,       \* history: api._model._model was assigned after a request
    payload,    \* the JSON body the client is composing / has posted
    resp,       \* the response to the posted body, NoResp when none is pending
    encBatch,   \* SpecEncode: the rows given to preprocess
    encOut,     \* SpecEncode: what preprocess returned
    stamps,     \* SpecLabel: the row's Fecha-O / Fecha-I cells
    label,      \* SpecLabel: the row's delay label, NoLabel before the call
    dm,         \* SpecStore: DelayModel instance -> its _model
    fs,         \* SpecStore: path -> file content
    dirs,       \* SpecStore: directories that exist
    origin,     \* SpecStore history: path -> classifier save_model wrote there
    last        \* SpecStore history: the last DelayModel call and its outcome

serveVars == <<phase, env, srv, assigns, served, late, payload, resp>>
encVars   == <<encBatch, encOut>>
labelVars == <<stamps, label>>
storeVars == <<dm, fs, dirs, origin, last>>
vars      == <<serveVars, encVars, labelVars, storeVars>>

\* The batch-length bound of the model.
MaxBatch == 2

(***************************************************************************)
(* Classifiers                                                             *)
(***************************************************************************)

\* DelayModel.TOP_10_FEATURES
TOP_10_FEATURES ==
    << "OPERA_Latin American Wings", "MES_7", "MES_10", "OPERA_Grupo LATAM",
       "MES_12", "TIPOVUELO_I", "MES_4", "MES_11", "OPERA_Sky Airline",
       "OPERA_Copa Air" >>

NFeatures == Len(TOP_10_FEATURES)

\* self._model = None
NoModel == [coef |-> << >>, intercept |-> 0, classes |-> << >>]

\* Fitted LogisticRegression objects: coef_, intercept_, classes_.
ClfA == [coef |-> <<0, 2, 0, 1, 0, 1, 0, 0, 0, 0>>, intercept |-> -2,
         classes |-> <<0, 1>>]
ClfB == [coef |-> <<1, -1, 0, 0, 0, 0, 0, 0, 0, 0>>, intercept |-> 1,
         classes |-> <<0, 1>>]
ClfC == [coef |-> <<0, 2, 0, 1, 0, 1, 0, 0, 0, 0>>, intercept |-> -3,
         classes |-> <<0, 1>>]
Classifiers == {ClfA, ClfB, ClfC}

RECURSIVE Dot(_, _, _)
Dot(w, x, k) == IF k = 0 THEN 0 ELSE w[k] * x[k] + Dot(w, x, k - 1)

\* LogisticRegression.predict on one row: classes_[decision_function > 0].
ClassifierPredictRow(clf, x) ==
    IF Dot(clf.coef, x, Len(clf.coef)) + clf.intercept > 0
    THEN clf.classes[2] ELSE clf.classes[1]

\* DelayModel.predict
predict(model, X) ==
    IF model = NoModel
    THEN [i \in 1..Len(X) |-> 0]
    ELSE [i \in 1..Len(X) |-> ClassifierPredictRow(model, X[i])]

(***************************************************************************)
(* DelayModel.preprocess                                                   *)
(***************************************************************************)

\* pd.DataFrame(rows): the columns are the keys of the rows (none for []).
DataFrame(rows) ==
    [columns |-> UNION {DOMAIN rows[i] : i \in 1..Len(rows)}, rows |-> rows]

\* str(level) as pandas formats a dummy column's level: MES is an integer
\* column, OPERA and TIPOVUELO hold strings.
LevelStr(col, v) == IF col = "MES" THEN ToString(v) ELSE v

\* Faulty variant of get_dummies: drop_first=True, the first level gets no column.
get_dummies_drop_first(df, col) ==
    LET names == {col \o "_" \o LevelStr(col, df.rows[i][col]) : i \in 1..Len(df.rows)}
        first == col \o "_" \o LevelStr(col, df.rows[1][col])
    IN  [i \in 1..Len(df.rows) |->
            [n \in names \ {first} |->
                IF n = col \o "_" \o LevelStr(col, df.rows[i][col]) THEN 1 ELSE 0]]

\* pd.get_dummies(data[col], prefix=col): one indicator column per value that
\* occurs in the batch.
get_dummies(df, col) ==
    LET names == {col \o "_" \o LevelStr(col, df.rows[i][col]) : i \in 1..Len(df.rows)}
    IN  [i \in 1..Len(df.rows) |->
            [n \in names |->
                IF n = col \o "_" \o LevelStr(col, df.rows[i][col]) THEN 1 ELSE 0]]

\* pd.concat([...], axis=1)
concat3(a, b, c) == [i \in 1..Len(a) |-> a[i] @@ b[i] @@ c[i]]

\* for feature in TOP_10_FEATURES: if feature not in features.columns: ... = 0
ensure_features(frame) ==
    [i \in 1..Len(frame) |->
        frame[i] @@ [n \in {TOP_10_FEATURES[k] : k \in 1..NFeatures} |-> 0]]

\* features[self.TOP_10_FEATURES]
select_features(frame) ==
    [i \in 1..Len(frame) |-> [k \in 1..NFeatures |-> frame[i][TOP_10_FEATURES[k]]]]

preprocess(df) ==
    IF ~({"OPERA", "TIPOVUELO", "MES"} \subseteq df.columns)
    THEN [ok |-> FALSE, X |-> << >>]                 \* KeyError
    ELSE [ok |-> TRUE,
          X  |-> select_features(ensure_features(
                    concat3(get_dummies(df, "OPERA"),
                            get_dummies(df, "TIPOVUELO"),
                            get_dummies(df, "MES"))))]

(***************************************************************************)
(* api._validate and api.post_predict                                      *)
(***************************************************************************)

valid_ops == {"Aerolineas Argentinas", "Grupo LATAM", "Sky Airline",
              "Copa Air", "Latin American Wings"}

\* JSON values of the MES field: an integer n, a real n/d, or a string s.
JInt(n)      == [t |-> "int",   n |-> n, d |-> 1, s |-> << >>]
JFloat(n, d) == [t |-> "float", n |-> n, d |-> d, s |-> << >>]
JStr(s)      == [t |-> "str",   n |-> 0, d |-> 1, s |-> s]

Digits == <<"0", "1", "2", "3", "4", "5", "6", "7", "8", "9">>
DigitOf(c) == CHOOSE k \in 0..9 : Digits[k + 1] = c
IsDigit(c) == \E k \in 1..10 : Digits[k] = c

RECURSIVE DecimalValue(_)
DecimalValue(s) ==
    IF s = << >> THEN 0
    ELSE 10 * DecimalValue(SubSeq(s, 1, Len(s) - 1)) + DigitOf(s[Len(s)])

\* int(mes): an int is itself, a float is truncated toward zero, a string is
\* parsed as a decimal literal and raises ValueError when it is not one.
py_int(mes) ==
    CASE mes.t = "int"   -> [ok |-> TRUE, v |-> mes.n]
      [] mes.t = "float" -> [ok |-> TRUE,
                             v  |-> IF mes.n >= 0 THEN mes.n \div mes.d
                                    ELSE -((-mes.n) \div mes.d)]
      [] mes.t = "str"   ->
            IF mes.s # << >> /\ \A k \in 1..Len(mes.s) : IsDigit(mes.s[k])
            THEN [ok |-> TRUE, v |-> DecimalValue(mes.s)]
            ELSE [ok |-> FALSE, v |-> 0]

\* One iteration of the loop of _validate: 200 stands for "row appended".
check_flight(f) ==
    IF ~({"OPERA", "TIPOVUELO", "MES"} \subseteq DOMAIN f) THEN 400
    ELSE IF f.OPERA \notin valid_ops THEN 400
    ELSE IF f.TIPOVUELO \notin {"I", "N"} THEN 400
    ELSE IF ~py_int(f.MES).ok THEN 500                   \* ValueError escapes
    ELSE IF ~(1 <= py_int(f.MES).v /\ py_int(f.MES).v <= 12) THEN 400
    ELSE 200

validated_row(f) ==
    [OPERA |-> f.OPERA, TIPOVUELO |-> f.TIPOVUELO, MES |-> py_int(f.MES).v]

\* Faulty variant of _validate: a flight that does not pass is skipped (continue)
\* instead of ending the call.
_validate_skipping(body) ==
    IF "flights" \notin DOMAIN body
    THEN [status |-> 400, rows |-> << >>]
    ELSE [status |-> 200,
          rows   |-> [i \in 1..Len(SelectSeq(body.flights, LAMBDA f : check_flight(f) = 200))
                        |-> validated_row(SelectSeq(body.flights,
                                LAMBDA f : check_flight(f) = 200)[i])]]

\* _validate: the first flight that does not pass ends the call.
_validate(body) ==
    IF "flights" \notin DOMAIN body
    THEN [status |-> 400, rows |-> << >>]
    ELSE LET fl  == body.flights
             bad == {i \in 1..Len(fl) : check_flight(fl[i]) # 200}
         IN  IF bad # {}
             THEN [status |-> check_flight(fl[CHOOSE i \in bad : \A j \in bad : i <= j]),
                   rows   |-> << >>]
             ELSE [status |-> 200,
                   rows   |-> [i \in 1..Len(fl) |-> validated_row(fl[i])]]

NoResp == [status |-> 0, predict |-> << >>, validated |-> FALSE,
           encoded |-> FALSE, classified |-> FALSE, model |-> NoModel]

\* post_predict: validate, build the frame, preprocess, predict.
post_predict(body, model) ==
    LET v == _validate(body) IN
    IF v.status # 200
    THEN [NoResp EXCEPT !.status = v.status]
    ELSE LET f == preprocess(DataFrame(v.rows)) IN
         IF ~f.ok
         THEN [NoResp EXCEPT !.status = 500, !.validated = TRUE, !.encoded = TRUE]
         ELSE [status |-> 200, predict |-> predict(model, f.X), validated |-> TRUE,
               encoded |-> TRUE, classified |-> TRUE, model |-> model]


(***************************************************************************)
(* DelayModel._generate_delay_target                                       *)
(***************************************************************************)

\* A cell of Fecha-O / Fecha-I.  shape: the text has the form
\* 'YYYY-MM-DD HH:MM:SS' (of January 2017); the fields are what is written.
Stamp(day, hour, min, sec) ==
    [shape |-> TRUE, day |-> day, hour |-> hour, min |-> min, sec |-> sec]
Garbage == [shape |-> FALSE, day |-> 0, hour |-> 0, min |-> 0, sec |-> 0]

\* datetime.strptime(cell, '%Y-%m-%d %H:%M:%S'), as seconds since 2017-01-00.
strptime(cell) ==
    IF /\ cell.shape
       /\ cell.day \in 1..31 /\ cell.hour \in 0..23
       /\ cell.min \in 0..59 /\ cell.sec \in 0..59
    THEN [ok |-> TRUE,
          t  |-> ((cell.day * 24 + cell.hour) * 60 + cell.min) * 60 + cell.sec]
    ELSE [ok |-> FALSE, t |-> 0]                         \* ValueError / TypeError

\* calculate_min_diff: (fecha_o - fecha_i).total_seconds() / 60 as the
\* fraction num/den; 0 when anything was raised.
calculate_min_diff(row) ==
    IF strptime(row.FechaO).ok /\ strptime(row.FechaI).ok
    THEN [num |-> strptime(row.FechaO).t - strptime(row.FechaI).t, den |-> 60]
    ELSE [num |-> 0, den |-> 1]

threshold_in_minutes == 15

\* Faulty variant of delay_of: >= in place of >.
delay_of_at_least(min_diff) ==
    IF min_diff.num >= threshold_in_minutes * min_diff.den THEN 1 ELSE 0

\* np.where(data['min_diff'] > threshold_in_minutes, 1, 0)
delay_of(min_diff) ==
    IF min_diff.num > threshold_in_minutes * min_diff.den THEN 1 ELSE 0

_generate_delay_target(row) == delay_of(calculate_min_diff(row))

(***************************************************************************)
(* DelayModel.save_model / load_model                                      *)
(***************************************************************************)

\* Faulty variant of pickle_dump: the intercept is not written (0 in its place).
pickle_dump_no_intercept(clf) ==
    <<128, 4, Len(clf.coef)>> \o clf.coef \o <<0, Len(clf.classes)>>
        \o clf.classes \o <<46>>

\* pickle.dump: protocol header, the object's parameters, STOP.
pickle_dump(clf) ==
    <<128, 4, Len(clf.coef)>> \o clf.coef \o <<clf.intercept, Len(clf.classes)>>
        \o clf.classes \o <<46>>

\* pickle.load: the object, or an exception (EOFError, UnpicklingError) when
\* the stream is not a whole pickle.
pickle_load(b) ==
    IF /\ Len(b) >= 6
       /\ b[1] = 128 /\ b[2] = 4 /\ b[Len(b)] = 46
       /\ b[3] >= 0 /\ Len(b) >= b[3] + 6
       /\ b[b[3] + 5] >= 0 /\ Len(b) = b[3] + b[b[3] + 5] + 6
    THEN [ok  |-> TRUE,
          obj |-> [coef      |-> SubSeq(b, 4, b[3] + 3),
                   intercept |-> b[b[3] + 4],
                   classes   |-> SubSeq(b, b[3] + 6, Len(b) - 1)]]
    ELSE [ok |-> FALSE, obj |-> NoModel]

NoFile     == [exists |-> FALSE, bytes |-> << >>]
File(b)    == [exists |-> TRUE, bytes |-> b]
Parent(p)  == p[1]

\* Faulty variant of save_model: the directory is made and the file opened for
\* writing before the check for a classifier.
save_model_open_first(model, path, files, directories) ==
    IF model = NoModel
    THEN [outcome |-> "NotTrained",
          files   |-> [files EXCEPT ![path] = File(<< >>)],
          dirs    |-> directories \cup {Parent(path)}]
    ELSE [outcome |-> "ok",
          files   |-> [files EXCEPT ![path] = File(pickle_dump(model))],
          dirs    |-> directories \cup {Parent(path)}]

\* save_model(filepath) on an instance holding `model`.
save_model(model, path, files, directories) ==
    IF model = NoModel
    THEN [outcome |-> "NotTrained", files |-> files, dirs |-> directories]
    ELSE [outcome |-> "ok",
          files   |-> [files EXCEPT ![path] = File(pickle_dump(model))],
          dirs    |-> directories \cup {Parent(path)}]

\* load_model(filepath) on an instance holding `model`.
load_model(model, path, files) ==
    IF ~files[path].exists
    THEN [outcome |-> "NotFound", model |-> model]
    ELSE IF ~pickle_load(files[path].bytes).ok
    THEN [outcome |-> "CorruptArtifact", model |-> model]
    ELSE [outcome |-> "ok", model |-> pickle_load(files[path].bytes).obj]

(***************************************************************************)
(* api.load_model_on_startup                                               *)
(***************************************************************************)

TmpFile == <<"tmp", "download.pkl">>

\* The outcome of load_model(tmp_file.name) inside the hook, "skipped" when
\* the hook returned or raised before it; every exception is caught.
startup_load(model, e) ==
    IF ~e.configured THEN [outcome |-> "skipped", model |-> model]
    ELSE IF e.registry = "error" THEN [outcome |-> "skipped", model |-> model]
    ELSE IF e.registry = "empty" THEN [outcome |-> "skipped", model |-> model]
    ELSE IF ~e.blob.exists THEN [outcome |-> "skipped", model |-> model]
    ELSE load_model(model, TmpFile, [p \in {TmpFile} |-> e.blob])

\* The value of api._model._model when the startup hook returns.
load_model_on_startup(model, e) == startup_load(model, e).model

\* Faulty variant of startup_pending: the load may run at any time (a reload hook).
startup_anytime == TRUE

\* The hook runs while the application starts, before requests are served.
startup_pending == phase = "startup"


(***************************************************************************)
(* The serving process                                                     *)
(***************************************************************************)

\* What the startup hook can find: variables unset; the registry failing,
\* empty, or naming an artifact that is missing, truncated or whole.
Env(configured, registry, blob) ==
    [configured |-> configured, registry |-> registry, blob |-> blob]
StartupEnvs ==
    {Env(FALSE, "empty", NoFile), Env(TRUE, "error", NoFile),
     Env(TRUE, "empty", NoFile), Env(TRUE, "found", NoFile),
     Env(TRUE, "found", File(<< >>)),
     Env(TRUE, "found", File(SubSeq(pickle_dump(ClfA), 1, 9)))}
    \cup {Env(TRUE, "found", File(pickle_dump(c))) : c \in {ClfA, ClfB}}

\* The flights a client may put in a body.
RawMonths == {JInt(7), JInt(13), JFloat(15, 2), JStr(<<"a", "b", "c">>),
              JStr(<<"1", "2">>)}
RawFlights ==
    [OPERA : {"Grupo LATAM", "Aerolineas Argentinas", "Avianca"},
     TIPOVUELO : {"I", "N", "X"}, MES : RawMonths]
    \cup {[OPERA |-> "Grupo LATAM", TIPOVUELO |-> "I"]}

EmptyBody == [flights |-> << >>]

InitServe ==
    /\ phase = "startup"
    /\ env \in StartupEnvs
    /\ srv = NoModel
    /\ assigns = 0
    /\ served = FALSE
    /\ late = FALSE
    /\ payload = EmptyBody
    /\ resp = NoResp

IdleServe ==
    /\ phase = "off"
    /\ env = Env(FALSE, "empty", NoFile)
    /\ srv = NoModel
    /\ assigns = 0
    /\ served = FALSE
    /\ late = FALSE
    /\ payload = EmptyBody
    /\ resp = NoResp

\* load_model_on_startup, run by the framework's startup event.
Startup ==
    /\ startup_pending
    /\ phase' = "serving"
    /\ srv' = load_model_on_startup(srv, env)
    /\ assigns' = IF startup_load(srv, env).outcome = "ok" /\ assigns < 2
                  THEN assigns + 1 ELSE assigns
    /\ late' = (late \/ (startup_load(srv, env).outcome = "ok" /\ served))
    /\ UNCHANGED <<env, served, payload, resp>>
    /\ UNCHANGED <<encVars, labelVars, storeVars>>

\* A client of the running service adds a flight to the body it is about to
\* post.
Compose ==
    /\ phase = "serving"
    /\ resp = NoResp
    /\ "flights" \in DOMAIN payload
    /\ Len(payload.flights) < MaxBatch
    /\ \E f \in RawFlights : payload' = [flights |-> Append(payload.flights, f)]
    /\ UNCHANGED <<phase, env, srv, assigns, served, late, resp>>
    /\ UNCHANGED <<encVars, labelVars, storeVars>>

\* The client prepares a body without the "flights" key.
ComposeMalformed ==
    /\ phase = "serving"
    /\ resp = NoResp
    /\ payload = EmptyBody
    /\ payload' = [data |-> << >>]
    /\ UNCHANGED <<phase, env, srv, assigns, served, late, resp>>
    /\ UNCHANGED <<encVars, labelVars, storeVars>>

\* POST /predict with the composed body.
PostPredict ==
    /\ phase = "serving"
    /\ resp = NoResp
    /\ resp' = post_predict(payload, srv)
    /\ served' = TRUE
    /\ UNCHANGED <<phase, env, srv, assigns, late, payload>>
    /\ UNCHANGED <<encVars, labelVars, storeVars>>

\* The client reads the response and starts a new body.
Receive ==
    /\ resp # NoResp
    /\ resp' = NoResp
    /\ payload' = EmptyBody
    /\ UNCHANGED <<phase, env, srv, assigns, served, late>>
    /\ UNCHANGED <<encVars, labelVars, storeVars>>

(***************************************************************************)
(* preprocess and _generate_delay_target on drawn inputs                   *)
(***************************************************************************)

\* Rows of well-typed flight records (MES an int).
EncFlights ==
    [OPERA : {"Grupo LATAM", "Latin American Wings", "Aerolineas Argentinas",
              "Avianca"},
     TIPOVUELO : {"I", "N"}, MES : {1, 4, 7}]

RECURSIVE SeqsUpTo(_, _)
SeqsUpTo(S, n) ==
    IF n = 0 THEN {<< >>}
    ELSE SeqsUpTo(S, n - 1) \cup
         {Append(q, x) : q \in {r \in SeqsUpTo(S, n - 1) : Len(r) = n - 1}, x \in S}

NoOut == [done |-> FALSE, ok |-> FALSE, X |-> << >>]

InitEnc  == encBatch \in SeqsUpTo(EncFlights, MaxBatch) /\ encOut = NoOut
IdleEnc  == encBatch = << >> /\ encOut = NoOut

\* features = model.preprocess(pd.DataFrame(rows))
Preprocess ==
    /\ ~encOut.done
    /\ encOut' = [done |-> TRUE] @@ preprocess(DataFrame(encBatch))
    /\ UNCHANGED encBatch
    /\ UNCHANGED <<serveVars, labelVars, storeVars>>

StampCells ==
    {Garbage} \cup
    {Stamp(d, h, m, s) : d \in {1, 2}, h \in {0, 23, 24},
                         m \in {0, 14, 15, 16, 60}, s \in {0, 1}}

NoLabel == -1

InitLabel == stamps \in [FechaO : StampCells, FechaI : StampCells] /\ label = NoLabel
IdleLabel == stamps = [FechaO |-> Garbage, FechaI |-> Garbage] /\ label = NoLabel

\* data['delay'] = self._generate_delay_target(data), for the row.
GenerateTarget ==
    /\ label = NoLabel
    /\ label' = _generate_delay_target(stamps)
    /\ UNCHANGED stamps
    /\ UNCHANGED <<serveVars, encVars, storeVars>>

(***************************************************************************)
(* DelayModel instances over a file system                                 *)
(***************************************************************************)

Instances == {"trainer", "server"}
Paths     == {<<".", "model.pkl">>, <<"artifacts", "model.pkl">>}

NoCall == [op |-> "none", inst |-> "trainer", path |-> <<".", "model.pkl">>,
           outcome |-> "none", before |-> NoModel,
           fsBefore |-> [p \in {} |-> NoFile], dirsBefore |-> {}]

InitStore ==
    /\ dm = [i \in Instances |-> NoModel]
    /\ fs = [p \in Paths |-> NoFile]
    /\ dirs = {"."}
    /\ origin = [p \in Paths |-> NoModel]
    /\ last = NoCall

\* fit: self._model becomes a fitted LogisticRegression (its parameters are
\* whatever the solver returns).
Fit ==
    /\ \E i \in Instances, c \in Classifiers : dm' = [dm EXCEPT ![i] = c]
    /\ last' = NoCall
    /\ UNCHANGED <<fs, dirs, origin>>
    /\ UNCHANGED <<serveVars, encVars, labelVars>>

SaveModel ==
    /\ \E i \in Instances, p \in Paths :
         LET r == save_model(dm[i], p, fs, dirs) IN
         /\ fs' = r.files
         /\ dirs' = r.dirs
         /\ origin' = IF r.outcome = "ok" THEN [origin EXCEPT ![p] = dm[i]] ELSE origin
         /\ last' = [op |-> "save", inst |-> i, path |-> p, outcome |-> r.outcome,
                     before |-> dm[i], fsBefore |-> fs, dirsBefore |-> dirs]
    /\ UNCHANGED dm
    /\ UNCHANGED <<serveVars, encVars, labelVars>>

LoadModel ==
    /\ \E i \in Instances, p \in Paths :
         LET r == load_model(dm[i], p, fs) IN
         /\ dm' = [dm EXCEPT ![i] = r.model]
         /\ last' = [op |-> "load", inst |-> i, path |-> p, outcome |-> r.outcome,
                     before |-> dm[i], fsBefore |-> fs, dirsBefore |-> dirs]
    /\ UNCHANGED <<fs, dirs, origin>>
    /\ UNCHANGED <<serveVars, encVars, labelVars>>

\* The environment cuts a file short (a partial copy or download).
Truncate ==
    /\ \E p \in Paths :
         /\ fs[p].exists /\ fs[p].bytes # << >>
         /\ fs' = [fs EXCEPT ![p] = File(SubSeq(fs[p].bytes, 1, Len(fs[p].bytes) \div 2))]
         /\ origin' = [origin EXCEPT ![p] = NoModel]
    /\ last' = NoCall
    /\ UNCHANGED <<dm, dirs>>
    /\ UNCHANGED <<serveVars, encVars, labelVars>>

\* The environment removes a file.
Remove ==
    /\ \E p \in Paths :
         /\ fs[p].exists
         /\ fs' = [fs EXCEPT ![p] = NoFile]
         /\ origin' = [origin EXCEPT ![p] = NoModel]
    /\ last' = NoCall
    /\ UNCHANGED <<dm, dirs>>
    /\ UNCHANGED <<serveVars, encVars, labelVars>>

(***************************************************************************)
(* Specifications                                                          *)
(***************************************************************************)

Init == InitServe /\ IdleEnc /\ IdleLabel /\ InitStore
Next == Startup \/ Compose \/ ComposeMalformed \/ PostPredict \/ Receive
Spec == Init /\ [][Next]_vars

InitEncode == IdleServe /\ InitEnc /\ IdleLabel /\ InitStore
NextEncode == Preprocess
SpecEncode == InitEncode /\ [][NextEncode]_vars

InitLabelSpec == IdleServe /\ IdleEnc /\ InitLabel /\ InitStore
NextLabel == GenerateTarget
SpecLabel == InitLabelSpec /\ [][NextLabel]_vars

InitStoreSpec == IdleServe /\ IdleEnc /\ IdleLabel /\ InitStore
NextStore == Fit \/ SaveModel \/ LoadModel \/ Truncate \/ Remove
SpecStore == InitStoreSpec /\ [][NextStore]_vars


(***************************************************************************)
(* Properties of the serving process (Spec)                                *)
(***************************************************************************)

Posted   == resp # NoResp
Flights  == IF "flights" \in DOMAIN payload THEN payload.flights ELSE << >>
HasKeys(f) == {"OPERA", "TIPOVUELO", "MES"} \subseteq DOMAIN f
Zeros(n) == [i \in 1..n |-> 0]

\* A flight the validation contract rejects: unknown carrier, unknown flight
\* type, or a month that is not an integer in 1..12.
ContractInvalid(f) ==
    \/ f.OPERA \notin {"Aerolineas Argentinas", "Grupo LATAM", "Sky Airline",
                       "Copa Air", "Latin American Wings"}
    \/ f.TIPOVUELO \notin {"I", "N"}
    \/ ~(f.MES.t = "int" /\ f.MES.n \in 1..12)

\* C1: a body holding a flight with an unknown carrier, an unknown flight type
\* or a month that is not an integer in 1..12 is answered with HTTP 400,
\* never with another failure and never with predictions.
C1_InvalidFlightGets400 ==
    Posted =>
        \A i \in 1..Len(Flights) :
            (HasKeys(Flights[i]) /\ ContractInvalid(Flights[i])) => resp.status = 400

\* C2: when any flight of the body, at whatever position, does not pass
\* _validate, the request fails as a whole: no prediction is returned and
\* neither preprocess nor predict has been called.
C2_AllOrNothing ==
    (Posted /\ \E i \in 1..Len(Flights) : check_flight(Flights[i]) # 200) =>
        /\ resp.status # 200
        /\ resp.predict = << >>
        /\ ~resp.encoded
        /\ ~resp.classified

\* C2 witness: a valid flight followed by an invalid one, rejected.
C2_Witness ==
    /\ Posted
    /\ Len(Flights) = 2
    /\ check_flight(Flights[1]) = 200
    /\ check_flight(Flights[2]) = 400
    /\ resp.status = 400

\* C3: every body that passes validation, the empty one included, is answered
\* with one prediction in {0, 1} per flight, in the order of the flights.
C3_OnePredictionPerFlight ==
    (Posted /\ resp.validated) =>
        /\ resp.status = 200
        /\ Len(resp.predict) = Len(Flights)
        /\ \A i \in 1..Len(Flights) : resp.predict[i] \in {0, 1}

\* C4: with no classifier loaded, every body that passes validation is
\* answered, without failure, with 0 for every flight.
C4_DefaultIsZero ==
    (Posted /\ resp.validated /\ srv = NoModel) =>
        /\ resp.status = 200
        /\ resp.predict = Zeros(Len(Flights))

\* The startup load did not produce a classifier.
startup_failed(e) == startup_load(NoModel, e).outcome # "ok"

\* C7: when loading at startup fails in any way, startup completes with no
\* classifier held and every later valid request is answered with 0 for every
\* flight rather than failing.
C7_FailOpenAfterFailedStartup ==
    (phase = "serving" /\ startup_failed(env)) =>
        /\ srv = NoModel
        /\ (Posted /\ resp.validated) =>
               (resp.status = 200 /\ resp.predict = Zeros(Len(Flights)))

\* C10: api._model._model is assigned at most once, never after a request has
\* been handled, and a response was computed from the classifier still held.
C10_AssignedOnceBeforeServing ==
    /\ assigns <= 1
    /\ ~late
    /\ (srv # NoModel => assigns = 1)
    /\ (Posted /\ resp.classified) => resp.model = srv

\* C10 witness: a request answered by a classifier loaded at startup.
C10_Witness ==
    /\ assigns = 1
    /\ served
    /\ Posted /\ resp.classified /\ resp.model = ClfA
    /\ 1 \in {resp.predict[i] : i \in 1..Len(resp.predict)}

(***************************************************************************)
(* Properties of preprocess (SpecEncode)                                   *)
(***************************************************************************)

\* The catalog as (attribute, literal) pairs, in catalog order.
Catalog ==
    << <<"OPERA", "Latin American Wings">>, <<"MES", 7>>, <<"MES", 10>>,
       <<"OPERA", "Grupo LATAM">>, <<"MES", 12>>, <<"TIPOVUELO", "I">>,
       <<"MES", 4>>, <<"MES", 11>>, <<"OPERA", "Sky Airline">>,
       <<"OPERA", "Copa Air">> >>

Indicator(rec, k) == IF rec[Catalog[k][1]] = Catalog[k][2] THEN 1 ELSE 0

\* C5: preprocess returns, for every row of every batch, ten entries in
\* catalog order, entry k being 1 exactly when the row's attribute equals the
\* catalog literal; the row's vector is the one it gets when encoded alone.
C5_FixedCatalogEncoding ==
    (encOut.done /\ encBatch # << >>) =>
        /\ encOut.ok
        /\ Len(encOut.X) = Len(encBatch)
        /\ \A i \in 1..Len(encBatch) :
              /\ DOMAIN encOut.X[i] = 1..10
              /\ \A k \in 1..10 : encOut.X[i][k] = Indicator(encBatch[i], k)
              /\ encOut.X[i] = preprocess(DataFrame(<<encBatch[i]>>)).X[1]

\* C5 witness: an unknown operator in July, international, next to a
\* different row: zero at every OPERA_* position, one at MES_7 and TIPOVUELO_I.
C5_Witness ==
    /\ encOut.done
    /\ Len(encBatch) = 2
    /\ encBatch[1] = [OPERA |-> "Avianca", TIPOVUELO |-> "I", MES |-> 7]
    /\ encBatch[2] = [OPERA |-> "Grupo LATAM", TIPOVUELO |-> "N", MES |-> 4]
    /\ encOut.X[1] = <<0, 1, 0, 0, 0, 1, 0, 0, 0, 0>>

(***************************************************************************)
(* Properties of _generate_delay_target (SpecLabel)                        *)
(***************************************************************************)

BothParse == strptime(stamps.FechaO).ok /\ strptime(stamps.FechaI).ok
SecondsLate == strptime(stamps.FechaO).t - strptime(stamps.FechaI).t

\* C6: the label is 1 exactly when both timestamps parse and the actual
\* departure is strictly more than 15 minutes after the scheduled one, and 0
\* otherwise (exactly 15 minutes, early, or a timestamp that does not parse).
C6_LabelStrictlyOver15 ==
    label # NoLabel =>
        label = (IF BothParse /\ SecondsLate > 15 * 60 THEN 1 ELSE 0)

\* C6 witness: exactly 15 minutes late, label 0.
C6_Witness == label = 0 /\ BothParse /\ SecondsLate = 15 * 60

(***************************************************************************)
(* Properties of save_model / load_model (SpecStore)                       *)
(***************************************************************************)

TestRows == {preprocess(DataFrame(<<r>>)).X[1] : r \in EncFlights}

\* C8: load_model from a file written by save_model succeeds and yields a
\* classifier that predicts, on every row, what the saved classifier predicts.
C8_SaveLoadRoundTrip ==
    (last.op = "load" /\ origin[last.path] # NoModel) =>
        /\ last.outcome = "ok"
        /\ \A x \in TestRows :
              predict(dm[last.inst], <<x>>) = predict(origin[last.path], <<x>>)

\* C8 witness: the server instance, holding another classifier, loads what the
\* trainer saved.
C8_Witness ==
    /\ last.op = "load" /\ last.outcome = "ok" /\ last.inst = "server"
    /\ origin[last.path] = ClfA
    /\ last.before = ClfB
    /\ dm["trainer"] = ClfC

\* C9: save_model without a classifier fails with NotTrained and leaves files
\* and directories as they were; load_model fails with NotFound on a missing
\* file and with CorruptArtifact on one that does not deserialize, and the
\* instance then holds what it held before.
C9_FailedCallsChangeNothing ==
    /\ (last.op = "save" /\ last.before = NoModel) =>
          (last.outcome = "NotTrained" /\ fs = last.fsBefore /\ dirs = last.dirsBefore)
    /\ (last.op = "load" /\ ~last.fsBefore[last.path].exists) =>
          (last.outcome = "NotFound" /\ dm[last.inst] = last.before)
    /\ (last.op = "load" /\ last.fsBefore[last.path].exists
                         /\ ~pickle_load(last.fsBefore[last.path].bytes).ok) =>
          (last.outcome = "CorruptArtifact" /\ dm[last.inst] = last.before)

\* C9 witness: an instance holding a classifier fails to load a cut file.
C9_Witness ==
    /\ last.op = "load" /\ last.outcome = "CorruptArtifact"
    /\ last.before = ClfA /\ dm[last.inst] = ClfA

=============================================================================
